---- MODULE Spec2Model ----
(***************************************************************************)
(* Authorization-aware access to VEN resources in the OpenADR VTN:         *)
(* the handlers of openadr-vtn/src/api/resource.rs, the list filters of    *)
(* resource.rs, report.rs and wire/program.rs, and the resource storage    *)
(* backend (trait ResourceCrud) they call.                                 *)
(***************************************************************************)
EXTENDS Integers, Sequences, FiniteSets, TLC

(***************************************************************************)
(* Bounds of the model.                                                    *)
(***************************************************************************)
MaxResources == 2          \* resources ever created
MaxClock == 1              \* readings of the server clock
MaxReports == 2            \* reports ever created

(***************************************************************************)
(* Program constants.                                                      *)
(***************************************************************************)
MinSkip == 0
MinLimit == 1
MaxLimit == 50
get_50 == 50
MaxU8 == 255
MinNameLen == 1
MaxNameLen == 128

(***************************************************************************)
(* Option<T> is a sequence of length at most one.                          *)
(***************************************************************************)
None == << >>
Some(x) == << x >>
is_some(o) == Len(o) = 1
unwrap_or(o, d) == IF is_some(o) THEN o[1] ELSE d

(***************************************************************************)
(* Identities: the roles of an already verified credential (AuthRole).     *)
(***************************************************************************)
Vens == {"ven-1", "ven-2"}
VenManager == [kind |-> "VenManager", ven |-> "-"]
AnyBusiness == [kind |-> "AnyBusiness", ven |-> "-"]
VEN(v) == [kind |-> "VEN", ven |-> v]

is_ven_manager(claims) == \E r \in claims : r.kind = "VenManager"
is_ven(claims) == \E r \in claims : r.kind = "VEN"
is_business(claims) == \E r \in claims : r.kind = "AnyBusiness"
ven_ids(claims) == {r.ven : r \in {x \in claims : x.kind = "VEN"}}

\* The identities that issue requests to the resource handlers.
Users ==
    {{VenManager}, {VEN("ven-1")}, {AnyBusiness},
     {AnyBusiness, VEN("ven-2")}, {VEN("ven-1"), VEN("ven-2")}}

\* The identities and contents of the requests that are followed over time.
Stampers == {{VenManager}, {VEN("ven-1")}}

\* The identities and query strings of the requests whose validation is
\* examined.
Checked == {{VenManager}, {VEN("ven-1")}, {AnyBusiness}}

\* The identities that issue requests to the report handlers, and the
\* contents they submit.
ReportUsers ==
    {{VEN("ven-1")}, {VEN("ven-2")}, {AnyBusiness}, {VenManager},
     {AnyBusiness, VEN("ven-1")}}
ReportContent == {[report_name |-> "report-1"], [report_name |-> "report-2"]}

\* The workers that serve requests at the same time, and the identities, Vens
\* and contents of their requests.
Procs == {1, 2}
Callers == {{VenManager}}
CalledVens == {"ven-1"}

\* Every role set over three Vens, and the Ven ids a path can name.
AllRoles == {VenManager, AnyBusiness} \cup {VEN(v) : v \in Vens \cup {"ven-3"}}
AllUsers == SUBSET AllRoles
PathVens == Vens \cup {"ven-3", "ven-4"}

(***************************************************************************)
(* Resource content and list filters.                                      *)
(***************************************************************************)
ResourceContent ==
    {[resource_name |-> "resource-1-name", attributes |-> Some("attr")],
     [resource_name |-> "resource-1-name", attributes |-> None],
     [resource_name |-> "resource-2-name", attributes |-> None]}
Stamped ==
    {[resource_name |-> "resource-1-name", attributes |-> Some("attr")],
     [resource_name |-> "resource-2-name", attributes |-> None]}
NoContent == [resource_name |-> "-", attributes |-> None]

\* The contents whose validation is examined: an empty name, a name of 128
\* characters and a name of 129 characters beside an ordinary one.
Name128 ==
    "This is exactly 128 characters long and should be accepted This is exactly 128 characters long and should be accepted asdfasdfas"
Name129 ==
    "This is more than 128 characters long and should be rejected This is more than 128 characters long and should be rejected asdfasd"
NamedContent ==
    {[resource_name |-> n, attributes |-> None] :
        n \in {"", "resource-1-name", Name128, Name129}}

\* A query string as received: every parameter may be omitted.
Query(tt, tv, skip, limit) ==
    [target_type |-> tt, target_values |-> tv, skip |-> skip, limit |-> limit]
NoQuery == Query(None, None, None, None)
ByName(n) == Query(Some("RESOURCE_NAME"), Some({n}), None, None)

\* The query strings sent to the resource list handler.
Queries ==
    {Query(None, None, s, l) : s \in {None, Some(1), Some(2)},
                               l \in {None, Some(1), Some(2)}}
    \cup {ByName("resource-1-name"), ByName("resource-2-name"),
          Query(Some("RESOURCE_NAME"), Some({"resource-1-name"}), Some(1), None),
          Query(Some("RESOURCE_NAME"), None, None, None),
          Query(None, None, Some(-1), None),
          Query(None, None, None, Some(51))}

\* The query strings of the list requests whose validation is examined.
CheckedQueries ==
    {NoQuery,
     Query(Some("RESOURCE_NAME"), None, None, None),
     Query(None, Some({"resource-1-name"}), None, None),
     Query(None, None, Some(-1), None),
     Query(None, None, None, Some(0)),
     Query(None, None, None, Some(51))}

\* The query strings whose validation is examined for every entity kind.
AllQueries ==
    [target_type : {None, Some("RESOURCE_NAME")},
     target_values : {None, Some({"resource-1-name"})},
     skip : {None, Some(-1), Some(0), Some(1)},
     limit : {None, Some(-1), Some(0), Some(1), Some(50), Some(51)}]

VARIABLES
    resources,   \* the stored resources, in creation order
    next_id,     \* the id the backend assigns to the next created resource
    clock,       \* the server clock
    last,        \* the request being answered and its response
    deleted,     \* history: the resources deleted so far, as (id, ven_id)
    fresh,       \* history: the entities returned by add, until edited or deleted
    reports,     \* the stored reports, in creation order
    next_report, \* the id the backend assigns to the next created report
    calls        \* the requests in flight at the same time, one per worker

report_vars == << reports, next_report >>
vars ==
    << resources, next_id, clock, last, deleted, fresh, reports, next_report,
       calls >>

ResourceIds == 1..MaxResources

Ok(body) == [status |-> "Ok", body |-> body]
Err(kind) == [status |-> kind, body |-> << >>]

(***************************************************************************)
(* resource.rs: has_write_permission                                       *)
(***************************************************************************)
\* Mutant: any VEN role is accepted, whatever Ven it names.
has_write_permission_any_ven(user, ven_id) ==
    IF is_ven_manager(user) THEN "Ok"
    ELSE IF is_ven(user) THEN "Ok"
    ELSE "Forbidden"

has_write_permission(user, ven_id) ==
    IF is_ven_manager(user) THEN "Ok"
    ELSE IF is_ven(user) /\ ven_id \in ven_ids(user) THEN "Ok"
    ELSE "Forbidden"

(***************************************************************************)
(* The list filters: deserialization (serde defaults, integer types) and   *)
(* validation (validator) of resource.rs, report.rs and wire/program.rs.   *)
(***************************************************************************)
validate_target_type_value_pair(query) ==
    is_some(query.target_type) = is_some(query.target_values)

resource_deserialize(raw) ==
    Ok(<< [target_type |-> raw.target_type,
           target_values |-> raw.target_values,
           skip |-> unwrap_or(raw.skip, 0),
           limit |-> unwrap_or(raw.limit, get_50)] >>)

resource_validate(query) ==
    /\ validate_target_type_value_pair(query)
    /\ query.skip >= MinSkip
    /\ query.limit >= MinLimit
    /\ query.limit <= MaxLimit

report_deserialize(raw) ==
    Ok(<< [skip |-> unwrap_or(raw.skip, 0),
           limit |-> unwrap_or(raw.limit, get_50)] >>)

report_validate(query) == query.limit <= MaxLimit

program_deserialize(raw) ==
    IF \/ ~is_some(raw.limit)
       \/ raw.limit[1] < 0 \/ raw.limit[1] > MaxU8
       \/ unwrap_or(raw.skip, 0) < 0
    THEN Err("BadRequest")
    ELSE Ok(<< [target_type |-> raw.target_type,
                target_values |-> raw.target_values,
                skip |-> unwrap_or(raw.skip, 0),
                limit |-> raw.limit[1]] >>)

program_validate(query) == query.limit <= MaxLimit

\* ValidatedQuery<QueryParams>: deserialize, then validate.
ValidatedQuery(kind, raw) ==
    LET parsed == CASE kind = "resource" -> resource_deserialize(raw)
                    [] kind = "report" -> report_deserialize(raw)
                    [] kind = "program" -> program_deserialize(raw)
        valid(q) == CASE kind = "resource" -> resource_validate(q)
                      [] kind = "report" -> report_validate(q)
                      [] kind = "program" -> program_validate(q)
    IN  IF parsed.status # "Ok" THEN parsed
        ELSE IF ~valid(parsed.body[1]) THEN Err("BadRequest")
        ELSE parsed

(***************************************************************************)
(* ValidatedJson<ResourceContent>: the content of a request is validated   *)
(* when it is extracted.                                                   *)
(***************************************************************************)
resource_content_validate(content) ==
    /\ Len(content.resource_name) >= MinNameLen
    /\ Len(content.resource_name) <= MaxNameLen

ValidatedJson(content) ==
    IF resource_content_validate(content) THEN Ok(<< content >>)
    ELSE Err("BadRequest")

(***************************************************************************)
(* The storage backend (ResourceCrud).  A write returns the response and   *)
(* the store it leaves.                                                    *)
(***************************************************************************)
Store(rs, n) == [resources |-> rs, next_id |-> n]
Same == Store(resources, next_id)
Written(resp, store) ==
    [status |-> resp.status, body |-> resp.body, store |-> store]

Positions(id, ven_id) ==
    {i \in 1..Len(resources) :
        resources[i].id = id /\ resources[i].ven_id = ven_id}
Position(id, ven_id) == CHOOSE i \in Positions(id, ven_id) : TRUE

RECURSIVE Drop(_, _)
Drop(s, n) == IF n <= 0 \/ s = << >> THEN s ELSE Drop(Tail(s), n - 1)

RECURSIVE Take(_, _)
Take(s, n) ==
    IF n <= 0 \/ s = << >> THEN << >> ELSE << Head(s) >> \o Take(Tail(s), n - 1)

Matches(r, ven_id, query) ==
    /\ r.ven_id = ven_id
    /\ is_some(query.target_values) =>
           r.content.resource_name \in query.target_values[1]

crud_retrieve_all(ven_id, query) ==
    Ok(Take(Drop(SelectSeq(resources, LAMBDA r : Matches(r, ven_id, query)),
                 query.skip),
            query.limit))

crud_retrieve(id, ven_id) ==
    IF Positions(id, ven_id) = {} THEN Err("NotFound")
    ELSE Ok(<< resources[Position(id, ven_id)] >>)

NewResource(new_resource, ven_id) ==
    [id |-> next_id, ven_id |-> ven_id,
     created_date_time |-> clock, modification_date_time |-> clock,
     content |-> new_resource]

crud_create(new_resource, ven_id) ==
    Written(Ok(<< NewResource(new_resource, ven_id) >>),
            Store(Append(resources, NewResource(new_resource, ven_id)),
                  next_id + 1))

Updated(r, content) ==
    [r EXCEPT !.content = content, !.modification_date_time = clock]

crud_update(id, ven_id, content) ==
    IF Positions(id, ven_id) = {} THEN Written(Err("NotFound"), Same)
    ELSE LET i == Position(id, ven_id)
         IN  Written(Ok(<< Updated(resources[i], content) >>),
                     Store([resources EXCEPT ![i] = Updated(@, content)],
                           next_id))

Without(i) ==
    SubSeq(resources, 1, i - 1) \o SubSeq(resources, i + 1, Len(resources))

crud_delete(id, ven_id) ==
    IF Positions(id, ven_id) = {} THEN Written(Err("NotFound"), Same)
    ELSE LET i == Position(id, ven_id)
         IN  Written(Ok(<< resources[i] >>), Store(Without(i), next_id))

(***************************************************************************)
(* resource.rs: the handlers get_all, get, add, edit, delete               *)
(***************************************************************************)
\* Mutant: the permission check is missing.
get_all_unchecked(user, ven_id, raw) ==
    LET query_params == ValidatedQuery("resource", raw)
    IN  IF query_params.status # "Ok" THEN query_params
        ELSE crud_retrieve_all(ven_id, query_params.body[1])

\* Mutant: skip is not passed on to the backend.
get_all_no_skip(user, ven_id, raw) ==
    LET query_params == ValidatedQuery("resource", raw)
    IN  IF query_params.status # "Ok" THEN query_params
        ELSE IF has_write_permission(user, ven_id) # "Ok" THEN Err("Forbidden")
        ELSE crud_retrieve_all(ven_id,
                               [query_params.body[1] EXCEPT !.skip = 0])

get_all(user, ven_id, raw) ==
    LET query_params == ValidatedQuery("resource", raw)
    IN  IF query_params.status # "Ok" THEN query_params
        ELSE IF has_write_permission(user, ven_id) # "Ok" THEN Err("Forbidden")
        ELSE crud_retrieve_all(ven_id, query_params.body[1])

\* Mutant: only a VenManager may read a single resource.
get_manager_only(user, ven_id, id) ==
    IF ~is_ven_manager(user) THEN Err("Forbidden")
    ELSE crud_retrieve(id, ven_id)

\* Mutant: the lookup precedes the permission check.
get_lookup_first(user, ven_id, id) ==
    IF crud_retrieve(id, ven_id).status # "Ok" THEN crud_retrieve(id, ven_id)
    ELSE IF has_write_permission(user, ven_id) # "Ok" THEN Err("Forbidden")
    ELSE crud_retrieve(id, ven_id)

get(user, ven_id, id) ==
    IF has_write_permission(user, ven_id) # "Ok" THEN Err("Forbidden")
    ELSE crud_retrieve(id, ven_id)

\* Mutant: the response is stamped by the handler, not taken from the backend.
add_restamped(user, ven_id, new_resource) ==
    IF ValidatedJson(new_resource).status # "Ok"
    THEN Written(ValidatedJson(new_resource), Same)
    ELSE IF has_write_permission(user, ven_id) # "Ok"
    THEN Written(Err("Forbidden"), Same)
    ELSE LET w == crud_create(new_resource, ven_id)
         IN  Written(Ok(<< [w.body[1] EXCEPT !.modification_date_time = @ + 1] >>),
                     w.store)

\* Mutant: the permission check precedes the validation of the content.
add_permission_first(user, ven_id, new_resource) ==
    IF has_write_permission(user, ven_id) # "Ok"
    THEN Written(Err("Forbidden"), Same)
    ELSE IF ValidatedJson(new_resource).status # "Ok"
    THEN Written(ValidatedJson(new_resource), Same)
    ELSE crud_create(new_resource, ven_id)

add(user, ven_id, new_resource) ==
    IF ValidatedJson(new_resource).status # "Ok"
    THEN Written(ValidatedJson(new_resource), Same)
    ELSE IF has_write_permission(user, ven_id) # "Ok"
    THEN Written(Err("Forbidden"), Same)
    ELSE crud_create(new_resource, ven_id)

\* Mutant: the resource is looked up by its id alone, under any Ven.
edit_by_id(user, ven_id, id, content) ==
    IF ValidatedJson(content).status # "Ok"
    THEN Written(ValidatedJson(content), Same)
    ELSE IF has_write_permission(user, ven_id) # "Ok"
    THEN Written(Err("Forbidden"), Same)
    ELSE IF \E v \in Vens : Positions(id, v) # {}
    THEN crud_update(id, CHOOSE v \in Vens : Positions(id, v) # {}, content)
    ELSE crud_update(id, ven_id, content)

\* Mutant: a field the new content omits keeps its old value.
edit_merge(user, ven_id, id, content) ==
    IF ValidatedJson(content).status # "Ok"
    THEN Written(ValidatedJson(content), Same)
    ELSE IF has_write_permission(user, ven_id) # "Ok"
    THEN Written(Err("Forbidden"), Same)
    ELSE IF Positions(id, ven_id) = {} THEN crud_update(id, ven_id, content)
    ELSE LET old == resources[Position(id, ven_id)].content
         IN  crud_update(id, ven_id,
                         [content EXCEPT !.attributes =
                              IF is_some(@) THEN @ ELSE old.attributes])

\* Mutant: the permission check is missing.
edit_unchecked(user, ven_id, id, content) ==
    IF ValidatedJson(content).status # "Ok"
    THEN Written(ValidatedJson(content), Same)
    ELSE crud_update(id, ven_id, content)

edit(user, ven_id, id, content) ==
    IF ValidatedJson(content).status # "Ok"
    THEN Written(ValidatedJson(content), Same)
    ELSE IF has_write_permission(user, ven_id) # "Ok"
    THEN Written(Err("Forbidden"), Same)
    ELSE crud_update(id, ven_id, content)

\* Mutant: the permission is checked after the backend has deleted.
delete_before_check(user, ven_id, id) ==
    IF has_write_permission(user, ven_id) # "Ok"
    THEN Written(Err("Forbidden"), crud_delete(id, ven_id).store)
    ELSE crud_delete(id, ven_id)

\* Mutant: the handler reads the resource instead of deleting it.
delete_retrieves(user, ven_id, id) ==
    IF has_write_permission(user, ven_id) # "Ok"
    THEN Written(Err("Forbidden"), Same)
    ELSE Written(crud_retrieve(id, ven_id), Same)

delete(user, ven_id, id) ==
    IF has_write_permission(user, ven_id) # "Ok"
    THEN Written(Err("Forbidden"), Same)
    ELSE crud_delete(id, ven_id)

(***************************************************************************)
(* The report storage backend (ReportCrud).                                *)
(***************************************************************************)
ReportStore(rs, n) == [reports |-> rs, next_report |-> n]
SameReports == ReportStore(reports, next_report)

ReportPositions(id) == {i \in 1..Len(reports) : reports[i].id = id}
ReportPosition(id) == CHOOSE i \in ReportPositions(id) : TRUE

NewReport(new_report, user) ==
    [id |-> next_report, created_by |-> ven_ids(user),
     created_date_time |-> clock, modification_date_time |-> clock,
     content |-> new_report]

report_crud_create(new_report, user) ==
    Written(Ok(<< NewReport(new_report, user) >>),
            ReportStore(Append(reports, NewReport(new_report, user)),
                        next_report + 1))

report_crud_update(id, content, user) ==
    IF ReportPositions(id) = {} THEN Written(Err("NotFound"), SameReports)
    ELSE LET i == ReportPosition(id)
             updated == [reports[i] EXCEPT !.content = content,
                                           !.modification_date_time = clock]
         IN  Written(Ok(<< updated >>),
                     ReportStore([reports EXCEPT ![i] = updated], next_report))

report_crud_delete(id, user) ==
    IF ReportPositions(id) = {} THEN Written(Err("NotFound"), SameReports)
    ELSE LET i == ReportPosition(id)
         IN  Written(Ok(<< reports[i] >>),
                     ReportStore(SubSeq(reports, 1, i - 1)
                                     \o SubSeq(reports, i + 1, Len(reports)),
                                 next_report))

(***************************************************************************)
(* report.rs: the handlers add, edit, delete and the extractors VENUser    *)
(* and BusinessUser that admit the identity.                               *)
(***************************************************************************)
VENUser(user) == IF is_ven(user) THEN "Ok" ELSE "Forbidden"
BusinessUser(user) == IF is_business(user) THEN "Ok" ELSE "Forbidden"

report_add(user, new_report) ==
    IF VENUser(user) # "Ok" THEN Written(Err("Forbidden"), SameReports)
    ELSE report_crud_create(new_report, user)

report_edit(user, id, content) ==
    IF VENUser(user) # "Ok" THEN Written(Err("Forbidden"), SameReports)
    ELSE report_crud_update(id, content, user)

\* Mutant: delete admits the identities that add and edit admit.
report_delete_ven_user(user, id) ==
    IF VENUser(user) # "Ok" THEN Written(Err("Forbidden"), SameReports)
    ELSE report_crud_delete(id, user)

report_delete(user, id) ==
    IF BusinessUser(user) # "Ok" THEN Written(Err("Forbidden"), SameReports)
    ELSE report_crud_delete(id, user)

(***************************************************************************)
(* Requests and responses.  A handler does not read the response of an     *)
(* earlier request: the response is delivered before the next request is   *)
(* handled.                                                                *)
(***************************************************************************)
Request(op, user, ven_id, id, query, content) ==
    [op |-> op, user |-> user, ven_id |-> ven_id, id |-> id,
     query |-> query, content |-> content]

Respond(req, resp) ==
    last' = [op |-> req.op, user |-> req.user, ven_id |-> req.ven_id,
             id |-> req.id, query |-> req.query, content |-> req.content,
             status |-> resp.status, body |-> resp.body]

NoRequest ==
    [op |-> "none", user |-> {}, ven_id |-> "-", id |-> 0,
     query |-> NoQuery, content |-> NoContent,
     status |-> "Ok", body |-> << >>]

Idle == last = NoRequest

Ids(body) == {body[i].id : i \in 1..Len(body)}
Keys(body) == {[id |-> body[i].id, ven_id |-> body[i].ven_id] : i \in 1..Len(body)}
Entities(body) == {body[i] : i \in 1..Len(body)}

Write(resp) ==
    /\ resources' = resp.store.resources
    /\ next_id' = resp.store.next_id

\* A request in flight: pc is "idle", "pending" (the handler awaits the
\* backend) or "done" (the backend has answered); seen tells whether the
\* resource it names was stored when it arrived, overlap whether another
\* request was pending during it.
NoCall == [pc |-> "idle", seen |-> FALSE, overlap |-> FALSE, r |-> NoRequest]

Init ==
    /\ resources = << >>
    /\ next_id = 1
    /\ clock = 0
    /\ last = NoRequest
    /\ deleted = {}
    /\ fresh = {}
    /\ reports = << >>
    /\ next_report = 1
    /\ calls = [p \in Procs |-> NoCall]

GetAll(U, Q) ==
    \E user \in U, ven_id \in Vens, query \in Q :
        /\ Idle
        /\ Respond(Request("get_all", user, ven_id, 0, query, NoContent),
                   get_all(user, ven_id, query))
        /\ UNCHANGED << resources, next_id, clock, deleted, fresh, report_vars, calls >>

Get(U) ==
    \E user \in U, ven_id \in Vens, id \in ResourceIds :
        /\ Idle
        /\ Respond(Request("get", user, ven_id, id, NoQuery, NoContent),
                   get(user, ven_id, id))
        /\ UNCHANGED << resources, next_id, clock, deleted, fresh, report_vars, calls >>

Add(U, C) ==
    \E user \in U, ven_id \in Vens, content \in C :
        LET resp == add(user, ven_id, content)
        IN  /\ Idle
            /\ next_id <= MaxResources
            /\ Respond(Request("add", user, ven_id, 0, NoQuery, content), resp)
            /\ Write(resp)
            /\ fresh' = IF resp.status = "Ok"
                        THEN fresh \cup Entities(resp.body) ELSE fresh
            /\ UNCHANGED << clock, deleted, report_vars, calls >>

Edit(U, C) ==
    \E user \in U, ven_id \in Vens, id \in ResourceIds, content \in C :
        LET resp == edit(user, ven_id, id, content)
        IN  /\ Idle
            /\ Respond(Request("edit", user, ven_id, id, NoQuery, content), resp)
            /\ Write(resp)
            /\ fresh' = IF resp.status = "Ok"
                        THEN {e \in fresh : e.id # id} ELSE fresh
            /\ UNCHANGED << clock, deleted, report_vars, calls >>

Delete(U) ==
    \E user \in U, ven_id \in Vens, id \in ResourceIds :
        LET resp == delete(user, ven_id, id)
        IN  /\ Idle
            /\ Respond(Request("delete", user, ven_id, id, NoQuery, NoContent),
                       resp)
            /\ Write(resp)
            /\ deleted' = IF resp.status = "Ok"
                          THEN deleted \cup Keys(resp.body) ELSE deleted
            /\ fresh' = IF resp.status = "Ok"
                        THEN {e \in fresh : e.id # id} ELSE fresh
            /\ UNCHANGED << clock, report_vars, calls >>

Deliver ==
    /\ ~Idle
    /\ last' = NoRequest
    /\ UNCHANGED << resources, next_id, clock, deleted, fresh, report_vars, calls >>

WriteReports(resp) ==
    /\ reports' = resp.store.reports
    /\ next_report' = resp.store.next_report

ReportIds == 1..MaxReports

ReportAdd ==
    \E user \in ReportUsers, content \in ReportContent :
        LET resp == report_add(user, content)
        IN  /\ Idle
            /\ next_report <= MaxReports
            /\ Respond(Request("report_add", user, "-", 0, NoQuery, content),
                       resp)
            /\ WriteReports(resp)
            /\ UNCHANGED << resources, next_id, clock, deleted, fresh, calls >>

ReportEdit ==
    \E user \in ReportUsers, id \in ReportIds, content \in ReportContent :
        LET resp == report_edit(user, id, content)
        IN  /\ Idle
            /\ Respond(Request("report_edit", user, "-", id, NoQuery, content),
                       resp)
            /\ WriteReports(resp)
            /\ UNCHANGED << resources, next_id, clock, deleted, fresh, calls >>

ReportDelete ==
    \E user \in ReportUsers, id \in ReportIds :
        LET resp == report_delete(user, id)
        IN  /\ Idle
            /\ Respond(Request("report_delete", user, "-", id, NoQuery,
                               NoContent), resp)
            /\ WriteReports(resp)
            /\ UNCHANGED << resources, next_id, clock, deleted, fresh, calls >>

(***************************************************************************)
(* Requests served at the same time on the shared store (AppState).  The   *)
(* handler is entered, awaits its single backend call, which the backend   *)
(* runs as one step, and returns; the request may be dropped while it      *)
(* waits.                                                                  *)
(***************************************************************************)
CalledRequests ==
    {Request("add", u, v, 0, NoQuery, c) :
        u \in Callers, v \in CalledVens, c \in Stamped}
    \cup {Request("edit", x[1], x[2], x[3], NoQuery, x[4]) :
              x \in Callers \X CalledVens \X ResourceIds \X Stamped}
    \cup {Request("delete", u, v, i, NoQuery, NoContent) :
              u \in Callers, v \in CalledVens, i \in ResourceIds}

Pending(p) == calls[p].pc = "pending"
PendingAdds == {p \in Procs : Pending(p) /\ calls[p].r.op = "add"}

Serve(req) ==
    CASE req.op = "add" -> add(req.user, req.ven_id, req.content)
      [] req.op = "edit" -> edit(req.user, req.ven_id, req.id, req.content)
      [] req.op = "delete" -> delete(req.user, req.ven_id, req.id)

Call(p) ==
    \E req \in CalledRequests :
        /\ calls[p].pc = "idle"
        /\ req.op = "add" =>
               next_id + Cardinality(PendingAdds) <= MaxResources
        /\ calls' =
               [q \in Procs |->
                   IF q = p
                   THEN [pc |-> "pending",
                         seen |-> Positions(req.id, req.ven_id) # {},
                         overlap |-> \E o \in Procs \ {p} : Pending(o),
                         r |-> [op |-> req.op, user |-> req.user,
                                ven_id |-> req.ven_id, id |-> req.id,
                                query |-> req.query, content |-> req.content,
                                status |-> "Ok", body |-> << >>]]
                   ELSE IF Pending(q) THEN [calls[q] EXCEPT !.overlap = TRUE]
                   ELSE calls[q]]
        /\ UNCHANGED << resources, next_id, clock, last, deleted, fresh,
                        report_vars >>

Commit(p) ==
    LET resp == Serve(calls[p].r)
    IN  /\ Pending(p)
        /\ Write(resp)
        /\ calls' = [calls EXCEPT ![p].pc = "done",
                                  ![p].r.status = resp.status,
                                  ![p].r.body = resp.body]
        /\ UNCHANGED << clock, last, deleted, fresh, report_vars >>

Abandon(p) ==
    /\ Pending(p)
    /\ calls' = [calls EXCEPT ![p] = NoCall]
    /\ UNCHANGED << resources, next_id, clock, last, deleted, fresh,
                    report_vars >>

Return(p) ==
    /\ calls[p].pc = "done"
    /\ calls' = [calls EXCEPT ![p] = NoCall]
    /\ UNCHANGED << resources, next_id, clock, last, deleted, fresh,
                    report_vars >>

Tick ==
    /\ clock < MaxClock
    /\ clock' = clock + 1
    /\ UNCHANGED << resources, next_id, last, deleted, fresh, report_vars, calls >>

(***************************************************************************)
(* Every handler, every identity of Users, and the clock.                  *)
(***************************************************************************)
Next ==
    \/ GetAll(Users, Queries)
    \/ Get(Users)
    \/ Add(Users, ResourceContent)
    \/ Edit(Users, ResourceContent)
    \/ Delete(Users)
    \/ ReportAdd
    \/ ReportEdit
    \/ ReportDelete
    \/ Deliver
    \/ Tick

Spec == Init /\ [][Next]_vars

(***************************************************************************)
(* Access: every handler and every identity of Users, within one reading   *)
(* of the clock.                                                           *)
(***************************************************************************)
NextAccess ==
    \/ GetAll(Users, Queries)
    \/ Get(Users)
    \/ Add(Users, ResourceContent)
    \/ Edit(Users, ResourceContent)
    \/ Delete(Users)
    \/ Deliver

SpecAccess == Init /\ [][NextAccess]_vars

(***************************************************************************)
(* Time: the handlers of a single resource and the clock, for the          *)
(* identities of Stampers.                                                 *)
(***************************************************************************)
NextTime ==
    \/ Get(Stampers)
    \/ Add(Stampers, Stamped)
    \/ Edit(Stampers, Stamped)
    \/ Delete(Stampers)
    \/ Deliver
    \/ Tick

SpecTime == Init /\ [][NextTime]_vars

(***************************************************************************)
(* The permission check on its own, for every role set and path Ven.       *)
(***************************************************************************)
CheckPermission ==
    \E user \in AllUsers, ven_id \in PathVens :
        /\ Idle
        /\ Respond(Request("has_write_permission", user, ven_id, 0,
                           NoQuery, NoContent),
                   [status |-> has_write_permission(user, ven_id),
                    body |-> << >>])
        /\ UNCHANGED << resources, next_id, clock, deleted, fresh, report_vars, calls >>

NextPermission == CheckPermission \/ Deliver

SpecPermission == Init /\ [][NextPermission]_vars

(***************************************************************************)
(* The validation of a list filter on its own, for every entity kind.      *)
(***************************************************************************)
ValidateQuery ==
    \E kind \in {"resource", "report", "program"}, raw \in AllQueries :
        /\ Idle
        /\ Respond(Request(kind, {}, "-", 0, raw, NoContent),
                   ValidatedQuery(kind, raw))
        /\ UNCHANGED << resources, next_id, clock, deleted, fresh, report_vars, calls >>

NextQuery == ValidateQuery \/ Deliver

SpecQuery == Init /\ [][NextQuery]_vars

(***************************************************************************)
(* Validation: every handler, with valid and invalid filters and contents, *)
(* for the identities of Checked.                                          *)
(***************************************************************************)
NextValidation ==
    \/ GetAll(Checked, CheckedQueries)
    \/ Get(Checked)
    \/ Add(Checked, NamedContent)
    \/ Edit(Checked, NamedContent)
    \/ Delete(Checked)
    \/ Deliver

SpecValidation == Init /\ [][NextValidation]_vars

(***************************************************************************)
(* Reports: the handlers that write reports, for the identities of         *)
(* ReportUsers.                                                            *)
(***************************************************************************)
NextReport ==
    \/ ReportAdd
    \/ ReportEdit
    \/ ReportDelete
    \/ Deliver

SpecReport == Init /\ [][NextReport]_vars

(***************************************************************************)
(* Concurrency: two workers that create, update and delete together.       *)
(***************************************************************************)
NextConcurrent ==
    \E p \in Procs :
        \/ Call(p)
        \/ Commit(p)
        \/ Abandon(p)
        \/ Return(p)

SpecConcurrent == Init /\ [][NextConcurrent]_vars

(***************************************************************************)
(* The properties.                                                         *)
(***************************************************************************)
\* The rule of the permission check, stated on the role set itself.
Authorized(user, ven_id) == VenManager \in user \/ VEN(ven_id) \in user

Exists(id) == \E i \in 1..Len(resources) : resources[i].id = id
ExistsUnder(id, ven_id) == Positions(id, ven_id) # {}
OwnerOf(id) ==
    resources[CHOOSE i \in 1..Len(resources) : resources[i].id = id].ven_id
DeletedIds == {k.id : k \in deleted}
ById == {"get", "edit", "delete"}

\* C1: for every role set and every Ven id, has_write_permission allows iff
\* the identity holds VenManager or a VEN role for exactly that Ven id, and
\* denies with Forbidden otherwise.
C1_WritePermissionRule ==
    last.op = "has_write_permission" =>
        /\ last.status \in {"Ok", "Forbidden"}
        /\ last.status = "Ok" <=> Authorized(last.user, last.ven_id)

C1_Witness ==
    /\ last.op = "has_write_permission"
    /\ last.status = "Forbidden"
    /\ AnyBusiness \in last.user
    /\ \E v \in Vens : v # last.ven_id /\ VEN(v) \in last.user

\* C2 as stated: get fails with NotFound if no resource with the id exists,
\* and with Forbidden if one exists but the identity lacks authorization over
\* it; a nonexistent id never yields Forbidden and an existing, unauthorized
\* id never yields NotFound.
C2_Original ==
    last.op = "get" =>
        /\ ~Exists(last.id) => last.status = "NotFound"
        /\ (Exists(last.id) /\ ~Authorized(last.user, OwnerOf(last.id)))
               => last.status = "Forbidden"

\* C2 amended: get under Ven V fails with Forbidden iff the identity lacks
\* authorization over V, whether or not the id exists; otherwise it fails with
\* NotFound iff no resource with that id is owned by V (also when the id
\* exists under another Ven); otherwise it returns that resource.
C2_GetOutcome ==
    last.op = "get" =>
        IF ~Authorized(last.user, last.ven_id)
        THEN last.status = "Forbidden" /\ last.body = << >>
        ELSE IF ~ExistsUnder(last.id, last.ven_id)
        THEN last.status = "NotFound" /\ last.body = << >>
        ELSE /\ last.status = "Ok"
             /\ Len(last.body) = 1
             /\ last.body[1] \in Entities(resources)
             /\ last.body[1].id = last.id
             /\ last.body[1].ven_id = last.ven_id

C2_Witness ==
    /\ last.op = "get"
    /\ last.status = "NotFound"
    /\ Exists(last.id)
    /\ ~Authorized(last.user, OwnerOf(last.id))

\* C3 as stated: a get, update or delete of a resource of Ven O by an identity
\* lacking authorization over O fails with Forbidden while the resource
\* exists, and with NotFound once an authorized identity has deleted it.
C3_Original ==
    (last.op \in ById /\ ~Authorized(last.user, last.ven_id)) =>
        /\ ExistsUnder(last.id, last.ven_id) => last.status = "Forbidden"
        /\ [id |-> last.id, ven_id |-> last.ven_id] \in deleted
               => last.status = "NotFound"

\* C3 amended: a get, update or delete of a resource of Ven O, addressed to O
\* by an identity lacking authorization over O, fails with Forbidden while the
\* resource exists, and the same call by the same identity still fails with
\* Forbidden (not NotFound) once an authorized identity has deleted it.
C3_UnauthorizedForbidden ==
    (last.op \in ById /\ ~Authorized(last.user, last.ven_id)) =>
        /\ ExistsUnder(last.id, last.ven_id) => last.status = "Forbidden"
        /\ [id |-> last.id, ven_id |-> last.ven_id] \in deleted
               => last.status = "Forbidden"

C3_Witness ==
    /\ last.op \in ById
    /\ ~Authorized(last.user, last.ven_id)
    /\ [id |-> last.id, ven_id |-> last.ven_id] \in deleted
    /\ last.status = "Forbidden"
Handled(ops) == Idle /\ last'.op \in ops
IndexOf(id) == CHOOSE i \in 1..Len(resources) : resources[i].id = id
Min(a, b) == IF a <= b THEN a ELSE b

\* A filter that passes the validation of the resource list handler.
WellFormed(raw) ==
    /\ is_some(raw.target_type) = is_some(raw.target_values)
    /\ unwrap_or(raw.skip, 0) >= 0
    /\ unwrap_or(raw.limit, 50) \in 1..50

\* C4: deletion is permanent.  After a successful delete of an id, every
\* later get, update or delete of it by an authorized identity returns
\* NotFound and changes nothing, no stored resource carries a deleted id, and
\* a created resource never receives a deleted or a stored id.
C4_DeletionPermanent ==
    /\ [](\A k \in deleted : ~Exists(k.id))
    /\ [][/\ (/\ Handled(ById)
              /\ Authorized(last'.user, last'.ven_id)
              /\ last'.id \in DeletedIds)
                 => (last'.status = "NotFound" /\ resources' = resources)
          /\ (Handled({"add"}) /\ last'.status = "Ok")
                 => Ids(last'.body) \cap (DeletedIds \cup Ids(resources)) = {}
       ]_vars

C4_Witness ==
    /\ last.op = "delete"
    /\ last.status = "NotFound"
    /\ Authorized(last.user, last.ven_id)
    /\ [id |-> last.id, ven_id |-> last.ven_id] \in deleted
    /\ \E i \in 1..Len(resources) : resources[i].id > last.id

\* C5: the list of Ven V, for an identity authorized for V and a well-formed
\* filter, holds only stored resources owned by V, and all of them when
\* nothing is filtered or paged away; for an identity not authorized for V
\* it is Forbidden, with no list.
Owned(ven_id) == {r \in Entities(resources) : r.ven_id = ven_id}

C5_ListOwnedOnly ==
    (last.op = "get_all" /\ WellFormed(last.query)) =>
        IF Authorized(last.user, last.ven_id)
        THEN /\ last.status = "Ok"
             /\ Entities(last.body) \subseteq Owned(last.ven_id)
             /\ last.query = NoQuery => Entities(last.body) = Owned(last.ven_id)
        ELSE last.status = "Forbidden" /\ last.body = << >>

C5_Witness ==
    /\ last.op = "get_all"
    /\ last.user = {VEN("ven-1")}
    /\ last.ven_id = "ven-1"
    /\ last.query = NoQuery
    /\ Len(last.body) >= 1
    /\ Owned("ven-2") # {}

\* C6: every resource a list returns is one that get, by the same identity
\* on the same store, returns.
C6_ListedIsReadable ==
    last.op = "get_all" =>
        \A i \in 1..Len(last.body) :
            get(last.user, last.body[i].ven_id, last.body[i].id)
                = Ok(<< last.body[i] >>)

C6_Witness ==
    /\ last.op = "get_all"
    /\ ~is_ven_manager(last.user)
    /\ Len(last.body) >= 1
    /\ Cardinality(Ids(resources)) = 2

\* C7: the entity add returns carries the submitted content, and as long as
\* the resource is neither updated nor deleted every get of it by an
\* authorized identity returns that same entity: id, createdDateTime,
\* modificationDateTime and content.
C7_RoundTrip ==
    /\ (last.op = "add" /\ last.status = "Ok") =>
           /\ Len(last.body) = 1
           /\ last.body[1].content = last.content
           /\ last.body[1].ven_id = last.ven_id
    /\ \A e \in fresh :
           (/\ last.op = "get"
            /\ last.id = e.id
            /\ last.ven_id = e.ven_id
            /\ Authorized(last.user, last.ven_id))
               => (last.status = "Ok" /\ last.body = << e >>)

C7_Witness ==
    /\ last.op = "get"
    /\ last.status = "Ok"
    /\ last.body[1] \in fresh
    /\ clock > last.body[1].created_date_time
    /\ \E i \in 1..Len(resources) : resources[i].id > last.id

\* C8: a successful update replaces the stored content by exactly the
\* submitted content, leaves the id, createdDateTime, owning Ven and every
\* other resource unchanged, does not move modificationDateTime backwards,
\* and a following get returns the entity as updated; in every state
\* modificationDateTime >= createdDateTime.
C8_UpdateReplaces ==
    /\ [](\A i \in 1..Len(resources) :
            resources[i].modification_date_time >= resources[i].created_date_time)
    /\ [][(Handled({"edit"}) /\ last'.status = "Ok") =>
            /\ Exists(last'.id)
            /\ Len(resources') = Len(resources)
            /\ LET i == IndexOf(last'.id)
               IN  /\ resources'[i].content = last'.content
                   /\ resources'[i].id = resources[i].id
                   /\ resources'[i].ven_id = resources[i].ven_id
                   /\ resources'[i].created_date_time
                          = resources[i].created_date_time
                   /\ resources'[i].modification_date_time
                          >= resources[i].modification_date_time
                   /\ \A j \in 1..Len(resources) :
                          j # i => resources'[j] = resources[j]
                   /\ last'.body = << resources'[i] >>
       ]_vars
    /\ []((last.op = "edit" /\ last.status = "Ok") =>
             /\ get(last.user, last.ven_id, last.id) = Ok(last.body)
             /\ last.body[1].content = last.content)

C8_Witness ==
    /\ last.op = "edit"
    /\ last.status = "Ok"
    /\ last.content.attributes = None
    /\ last.body[1].modification_date_time > last.body[1].created_date_time
    /\ Len(resources) = 2

\* C9: a list with skip s and limit l is exactly the elements at positions
\* s+1 .. s+l of the matching resources in creation order, and followed by
\* the list with skip s+l and limit l it covers positions s+1 .. s+2l with
\* no element twice and none left out.
Full(ven_id, raw) ==
    SelectSeq(resources,
              LAMBDA r : /\ r.ven_id = ven_id
                         /\ is_some(raw.target_values) =>
                                r.content.resource_name \in raw.target_values[1])

C9_Pagination ==
    (last.op = "get_all" /\ last.status = "Ok") =>
        LET s == unwrap_or(last.query.skip, 0)
            l == unwrap_or(last.query.limit, 50)
            full == Full(last.ven_id, last.query)
            following == get_all(last.user, last.ven_id,
                                 [last.query EXCEPT !.skip = Some(s + l)])
        IN  /\ last.body = SubSeq(full, s + 1, Min(s + l, Len(full)))
            /\ \A i, j \in 1..Len(full) : i < j => full[i].id < full[j].id
            /\ following.status = "Ok"
            /\ last.body \o following.body
                   = SubSeq(full, s + 1, Min(s + 2 * l, Len(full)))
            /\ Ids(last.body) \cap Ids(following.body) = {}

C9_Witness ==
    /\ last.op = "get_all"
    /\ last.status = "Ok"
    /\ last.query.skip = Some(1)
    /\ Len(Full(last.ven_id, last.query)) = 2
    /\ Len(last.body) = 1

\* C10: for the resource filter and the program filter, a filter with
\* targetType set and targetValues absent, or targetValues set and targetType
\* absent, fails validation.
C10_Original ==
    (/\ last.op \in {"resource", "program"}
     /\ is_some(last.query.target_type) # is_some(last.query.target_values))
        => last.status = "BadRequest"

\* C11: for the list filter of every entity kind (report, resource, program),
\* skip is a non-negative integer that defaults to 0 when omitted, limit is an
\* integer within 0..50 that defaults to 50 when omitted, and a filter with a
\* negative skip, a limit above 50 or a negative limit fails validation.
C11_Original ==
    last.op \in {"resource", "report", "program"} =>
        LET skip == unwrap_or(last.query.skip, 0)
            limit == unwrap_or(last.query.limit, 50)
        IN  /\ (skip < 0 \/ limit > 50 \/ limit < 0)
                   => last.status = "BadRequest"
            /\ last.status = "Ok" =>
                   /\ last.body[1].skip = skip
                   /\ last.body[1].limit = limit
            /\ (/\ last.query.target_type = None
                /\ last.query.target_values = None
                /\ skip >= 0
                /\ limit \in 1..50) => last.status = "Ok"

\* C12: validation precedes authorization and storage.  A request whose
\* filter is ill-formed, or whose content has a name of length 0 or above
\* 128, is answered with ValidationFailed (400) whether or not the identity
\* is authorized for the Ven of the path, and the store is left as it was.
Invalid(req) ==
    \/ /\ req.op \in {"add", "edit"}
       /\ Len(req.content.resource_name) \notin 1..128
    \/ /\ req.op = "get_all"
       /\ ~WellFormed(req.query)

C12_ValidationFirst ==
    [][(Idle /\ Invalid(last')) =>
          /\ last'.status = "BadRequest"
          /\ last'.body = << >>
          /\ resources' = resources
          /\ next_id' = next_id
      ]_vars

C12_Witness ==
    /\ last.op = "add"
    /\ Len(last.content.resource_name) = 129
    /\ ~Authorized(last.user, last.ven_id)
    /\ last.status = "BadRequest"
    /\ \E i \in 1..Len(resources) :
           Len(resources[i].content.resource_name) = 128

\* C13: a report is created or updated only for an identity holding a VEN
\* role and deleted only for an identity holding a Business role.  An
\* identity with a Business role deletes any existing report, whichever VEN
\* created it; an identity without a Business role never deletes one, not
\* even its own, and an identity without a VEN role never creates or
\* updates one.
HoldsVen(user) == \E v \in Vens : VEN(v) \in user
HoldsBusiness(user) == AnyBusiness \in user
ReportExists(id) == \E i \in 1..Len(reports) : reports[i].id = id

C13_ReportRoles ==
    [][/\ Handled({"report_add", "report_edit"}) =>
             /\ last'.status = "Ok" => HoldsVen(last'.user)
             /\ ~HoldsVen(last'.user) =>
                    (last'.status = "Forbidden" /\ reports' = reports)
       /\ (Handled({"report_add"}) /\ HoldsVen(last'.user)) =>
             /\ last'.status = "Ok"
             /\ reports' = Append(reports, last'.body[1])
             /\ last'.body[1].content = last'.content
       /\ Handled({"report_delete"}) =>
             /\ last'.status = "Ok" => HoldsBusiness(last'.user)
             /\ ~HoldsBusiness(last'.user) =>
                    (last'.status = "Forbidden" /\ reports' = reports)
             /\ (HoldsBusiness(last'.user) /\ ReportExists(last'.id)) =>
                    /\ last'.status = "Ok"
                    /\ last'.body[1] \in Entities(reports)
                    /\ last'.body[1].id = last'.id
                    /\ Entities(reports') = Entities(reports) \ {last'.body[1]}
      ]_vars

C13_Witness ==
    /\ last.op = "report_delete"
    /\ last.user = {AnyBusiness}
    /\ last.status = "Ok"
    /\ last.body[1].created_by = {"ven-2"}
    /\ Len(reports) = 1

\* C14: no operation that fails changes the store.  Whenever list, get,
\* create, update or delete returns Forbidden, NotFound or ValidationFailed,
\* it returns no entity and the stored resources, with their content, owner
\* and timestamps, are those before the call; a valid request that
\* has_write_permission denies is answered Forbidden and leaves the store
\* as it was.
Handlers == {"get_all", "get", "add", "edit", "delete"}

C14_FailureChangesNothing ==
    [][Handled(Handlers) =>
          /\ last'.status \in {"Ok", "Forbidden", "NotFound", "BadRequest"}
          /\ last'.status # "Ok" =>
                 /\ last'.body = << >>
                 /\ resources' = resources
                 /\ next_id' = next_id
          /\ (/\ ~Invalid(last')
              /\ has_write_permission(last'.user, last'.ven_id) = "Forbidden")
                 => (last'.status = "Forbidden" /\ resources' = resources)
      ]_vars

C14_Witness ==
    /\ last.op = "delete"
    /\ last.status = "Forbidden"
    /\ ExistsUnder(last.id, last.ven_id)
    /\ Len(resources) = 2

\* C16: a resource is reachable only through its owning Ven.  A get, update
\* or delete of an id that exists under another Ven than the Ven of the
\* path, by an identity authorized for the Ven of the path, returns NotFound
\* and no entity and changes nothing; a resource keeps its owning Ven for as
\* long as it is stored, and it is changed or removed only by a request
\* that names its id under its owning Ven.
Stored(rs, id) == {r \in Entities(rs) : r.id = id}

C16_OwnPathOnly ==
    [][/\ (/\ Handled(ById)
           /\ ~Invalid(last')
           /\ Authorized(last'.user, last'.ven_id)
           /\ Exists(last'.id)
           /\ OwnerOf(last'.id) # last'.ven_id)
              => /\ last'.status = "NotFound"
                 /\ last'.body = << >>
                 /\ resources' = resources
       /\ \A r \in Entities(resources) :
              /\ \A q \in Stored(resources', r.id) : q.ven_id = r.ven_id
              /\ Stored(resources', r.id) # {r} =>
                     /\ last'.op \in {"edit", "delete"}
                     /\ last'.id = r.id
                     /\ last'.ven_id = r.ven_id
                     /\ Authorized(last'.user, r.ven_id)
      ]_vars

C16_Witness ==
    /\ last.op = "edit"
    /\ last.status = "NotFound"
    /\ last.user = {VenManager}
    /\ Exists(last.id)
    /\ OwnerOf(last.id) # last.ven_id
    /\ resources[IndexOf(last.id)].content # last.content

\* C15: writes to one id are atomic and mutually exclusive under every
\* interleaving of concurrent requests.  After two concurrent updates of one
\* id the stored content is exactly one of the two submitted contents; of two
\* concurrent deletes of one stored id exactly one returns the entity and the
\* other returns NotFound; a request dropped while it waits changes nothing,
\* and the store never holds a partial resource.
Done(p, op) ==
    /\ calls[p].pc = "done"
    /\ calls[p].r.op = op
SameTarget(p, q) ==
    /\ p # q
    /\ calls[p].r.id = calls[q].r.id
    /\ calls[p].r.ven_id = calls[q].r.ven_id
Whole(r) ==
    /\ r.id \in 1..(next_id - 1)
    /\ r.ven_id \in Vens
    /\ r.content \in Stamped
    /\ r.created_date_time <= r.modification_date_time

====
